---- MODULE Spec2Model ----
(***************************************************************************)
(* npcrypto/keccak.py: the Keccak-f[200] permutation over a batch of       *)
(* states held in a numpy array.  Arrays are modelled as numpy holds them: *)
(* a shape, a dtype (its width in bits) and the row-major flat data.  The  *)
(* heap maps buffer ids to arrays, so that a view (reshape), a fresh       *)
(* result (^, <<, fancy indexing) and an in-place write (^=) differ.       *)
(***************************************************************************)
EXTENDS Integers, Sequences, FiniteSets, TLC

VARIABLES
    entry,        \* the function of the module the caller calls
    heap,         \* buffer id -> array, the live numpy buffers
    x,            \* the caller's reference to its input array
    out,          \* the caller's references to the arrays returned so far
    states,       \* the callee's local `states` (a buffer id), NoRef outside a call
    round_index,  \* permutation's i / the round_index parameter
    it,           \* the position of permutation's range(MAX_ROUNDS) iterator
    offset,       \* the offset argument of a direct ROL8 call
    pc,           \* the control point
    err           \* the exception that ended the call, "none" otherwise

vars == <<entry, heap, x, out, states, round_index, it, offset, pc, err>>

\* ---------------------------------------------------------------- bounds
\* largest batch size N the caller passes
MaxN == 2
\* number of calls the caller makes on the same batch object
MaxCalls == 2
\* round indices tried in direct calls: -(MAX_ROUNDS+IdxSlack)..(MAX_ROUNDS+IdxSlack)
IdxSlack == 2

\* ------------------------------------------------------------- constants
MAX_ROUNDS == 18

RC_typo == <<1, 130, 138, 0, 139, 1, 129, 9, 138, 136, 9, 10, 139, 139, 137, 3, 2, 129>>
RC == <<1, 130, 138, 0, 139, 1, 129, 9, 138, 136, 9, 10, 139, 139, 137, 3, 2, 128>>

\* the (5, 5) table, row-major
RHO_OFFSETS == <<0, 1, 6, 4, 3,  4, 4, 6, 7, 4,  3, 2, 3, 1, 7,
                 1, 5, 7, 5, 0,  2, 2, 5, 0, 6>>

\* width in bits of np.uint8, the dtype of a valid batch and of the tables
UINT8 == 8

\* width in bits of np.uint16, a dtype whose lanes need not fit 8 bits
UINT16 == 2 * UINT8

NoRef == 0 - 1

\* ------------------------------------------------- integer bit operations
RECURSIVE Pow2(_)
Pow2(k) == IF k = 0 THEN 1 ELSE 2 * Pow2(k - 1)

RECURSIVE BitXor(_, _)
BitXor(a, b) ==
    IF a = 0 THEN b
    ELSE IF b = 0 THEN a
    ELSE ((a + b) % 2) + 2 * BitXor(a \div 2, b \div 2)

RECURSIVE BitAnd(_, _)
BitAnd(a, b) ==
    IF a = 0 \/ b = 0 THEN 0
    ELSE ((a % 2) * (b % 2)) + 2 * BitAnd(a \div 2, b \div 2)

\* v << s in an unsigned dtype of w bits: the bits above the width are lost,
\* a shift by the width or more gives 0
LShiftNoWrap(v, s, w) == v * Pow2(s)
LShift(v, s, w) == IF s >= w THEN 0 ELSE (v * Pow2(s)) % Pow2(w)

\* v >> s in an unsigned dtype of w bits: a shift by the width or more gives 0
RShiftMasked(v, s, w) == v \div Pow2(s % w)
RShift(v, s, w) == IF s >= w THEN 0 ELSE v \div Pow2(s)

\* np.invert in an unsigned dtype of w bits
Invert(v, w) == (Pow2(w) - 1) - v

\* ------------------------------------------------------------ numpy arrays
\* numpy computes every element of a result when the operation runs: the data
\* of an array is held as the tuple of its values
Array(shape, dtype, data) ==
    [shape |-> shape, dtype |-> dtype, data |-> SubSeq(data, 1, Len(data))]

ValueError == [error |-> "ValueError"]
IndexError == [error |-> "IndexError"]
IsError(a) == "error" \in DOMAIN a

RECURSIVE Size(_)
Size(shape) == IF shape = <<>> THEN 1 ELSE Head(shape) * Size(Tail(shape))

Last(s) == s[Len(s)]

\* a.reshape(shape): a view of the same data, ValueError when the sizes differ
reshape(a, shape) ==
    IF Size(shape) = Len(a.data) THEN [a EXCEPT !.shape = shape] ELSE ValueError

\* a ^ b, a & b, ~a elementwise on arrays of the same shape: a fresh array
xor(a, b) ==
    Array(a.shape, a.dtype, [k \in DOMAIN a.data |-> BitXor(a.data[k], b.data[k])])
and(a, b) ==
    Array(a.shape, a.dtype, [k \in DOMAIN a.data |-> BitAnd(a.data[k], b.data[k])])
invert(a) ==
    Array(a.shape, a.dtype, [k \in DOMAIN a.data |-> Invert(a.data[k], a.dtype)])

\* np.bitwise_xor.reduce(a, axis=-2) of an (N, R, C) array: an (N, C) array
RECURSIVE XorRows(_, _, _, _)
XorRows(a, n, c, r) ==
    IF r = 0 THEN 0
    ELSE BitXor(a.data[(n * a.shape[2] * a.shape[3]) + ((r - 1) * a.shape[3]) + c + 1],
                XorRows(a, n, c, r - 1))

xor_reduce(a) ==
    Array(<<a.shape[1], a.shape[3]>>, a.dtype,
          [k \in 1..(a.shape[1] * a.shape[3]) |->
              XorRows(a, (k - 1) \div a.shape[3], (k - 1) % a.shape[3], a.shape[2])])

\* np.roll(a, shift, axis=-1): out[..., j] = a[..., (j - shift) mod m]
roll_right(a, shift) ==
    LET m == Last(a.shape)
    IN  Array(a.shape, a.dtype, [k \in DOMAIN a.data |->
            a.data[(((k - 1) \div m) * m) + ((((k - 1) % m) + shift) % m) + 1]])
roll(a, shift) ==
    LET m == Last(a.shape)
    IN  Array(a.shape, a.dtype, [k \in DOMAIN a.data |->
            a.data[(((k - 1) \div m) * m) + ((((k - 1) % m) - shift) % m) + 1]])

\* np.repeat(a, reps, axis=-2) of a 2-d (R, C) array: axis -2 is axis 0, every
\* row is repeated reps times in place, giving (R * reps, C)
tile_rows(a, reps) ==
    Array(<<a.shape[1] * reps, a.shape[2]>>, a.dtype,
          [k \in 1..(a.shape[1] * reps * a.shape[2]) |->
              a.data[((((k - 1) \div a.shape[2]) % a.shape[1]) * a.shape[2])
                     + ((k - 1) % a.shape[2]) + 1]])
repeat(a, reps) ==
    Array(<<a.shape[1] * reps, a.shape[2]>>, a.dtype,
          [k \in 1..(a.shape[1] * reps * a.shape[2]) |->
              a.data[((((k - 1) \div a.shape[2]) \div reps) * a.shape[2])
                     + ((k - 1) % a.shape[2]) + 1]])

\* a[:, idx] of an (N, L) array with an index array idx: a fresh (N, len(idx)) array
take(a, idx) ==
    Array(<<a.shape[1], Len(idx)>>, a.dtype,
          [k \in 1..(a.shape[1] * Len(idx)) |->
              a.data[(((k - 1) \div Len(idx)) * a.shape[2])
                     + idx[((k - 1) % Len(idx)) + 1] + 1]])

\* t[k] of a 1-d table: a negative k counts from the end, IndexError beyond
getitem(t, k) ==
    IF k >= Len(t) \/ k < 0 - Len(t) THEN IndexError
    ELSE IF k < 0 THEN [value |-> t[k + Len(t) + 1]]
    ELSE [value |-> t[k + 1]]

\* ----------------------------------------------------------- keccak.py
\* ROL8(states, offset): offset is the flat data of the offset array, broadcast
\* over the trailing axes (a scalar is the one-element <<r>>)
ROL8(a, off) ==
    Array(a.shape, a.dtype, [k \in DOMAIN a.data |->
        LET o == off[((k - 1) % Len(off)) + 1]
        IN  BitXor(LShift(a.data[k], o, a.dtype), RShift(a.data[k], 8 - o, a.dtype))])

theta(a) ==
    LET N  == a.shape[1]
        s  == reshape(a, <<N, 5, 5>>)
    IN  IF IsError(s) THEN s
        ELSE LET C  == xor_reduce(s)
                 C1 == roll(C, 0 - 1)
                 C4 == roll(C, 0 - 4)
                 D  == xor(ROL8(C1, <<1>>), C4)
                 DD == reshape(repeat(D, 5), <<N, 5, 5>>)
             IN  reshape(xor(s, DD), <<N, 25>>)

rho(a) ==
    LET N == a.shape[1]
        s == reshape(a, <<N, 5, 5>>)
    IN  IF IsError(s) THEN s
        ELSE reshape(ROL8(s, RHO_OFFSETS), <<N, 25>>)

p_mat_collide == <<0, 6, 12, 18, 24, 3, 9, 10, 16, 22, 1, 7, 13, 19, 20, 4, 5, 11,
                   17, 23, 2, 8, 14, 15, 20>>
p_mat == <<0, 6, 12, 18, 24, 3, 9, 10, 16, 22, 1, 7, 13, 19, 20, 4, 5, 11,
           17, 23, 2, 8, 14, 15, 21>>

pi(a) == take(a, p_mat)

chi(a) ==
    LET N == a.shape[1]
        s == reshape(a, <<N, 5, 5>>)
    IN  IF IsError(s) THEN s
        ELSE LET A1 == roll(s, 0 - 1)
                 A2 == roll(s, 0 - 2)
             IN  reshape(xor(s, and(invert(A1), A2)), <<N, 25>>)

\* states[:, 0] ^= RC[round_index]: the value the buffer of `a` holds afterwards
iota(a, i) ==
    LET rc == getitem(RC, i)
    IN  IF IsError(rc) THEN rc
        ELSE Array(a.shape, a.dtype, [k \in DOMAIN a.data |->
                 IF (k - 1) % a.shape[2] = 0
                 THEN BitXor(a.data[k], rc.value) ELSE a.data[k]])

\* keccak_round: the step that follows each step (theta, rho, pi, chi, iota)
NextStepSwapped(step) ==
    CASE step = "theta" -> "pi"
      [] step = "pi"    -> "rho"
      [] step = "rho"   -> "chi"
      [] step = "chi"   -> "iota"
      [] OTHER          -> "end"
NextStep(step) ==
    CASE step = "theta" -> "rho"
      [] step = "rho"   -> "pi"
      [] step = "pi"    -> "chi"
      [] step = "chi"   -> "iota"
      [] OTHER          -> "end"

\* whether a step writes its result into the buffer `states` refers to (iota's
\* ^=) or binds `states` to a fresh array (theta's states ^ D, rho's ROL8,
\* pi's fancy indexing, chi's states ^ ...)
InPlaceTheta(step) == step \in {"iota", "theta"}
InPlace(step) == step = "iota"

\* ------------------------------------------------------------------ heap
Range(s) == {s[k] : k \in DOMAIN s}

\* the lowest buffer id not in use
Alloc(h) ==
    CHOOSE b \in 0..Cardinality(DOMAIN h) :
        b \notin DOMAIN h /\ \A c \in 0..(b - 1) : c \in DOMAIN h

\* reference counting: a buffer nobody refers to any more is freed at once
Collect(h, roots) == [b \in (DOMAIN h) \cap roots |-> h[b]]

Roots(o, st) == {x} \cup Range(o) \cup (IF st = NoRef THEN {} ELSE {st})

\* ---------------------------------------------------------------- inputs
SampleA == <<244, 237, 146, 136, 194, 119, 230, 20, 38, 153, 174, 61, 167,
             242, 195, 179, 8, 8, 136, 17, 205, 246, 3, 170, 138>>
SampleB == <<58, 11, 187, 245, 222, 188, 53, 201, 253, 243, 189, 249, 92,
             101, 85, 40, 249, 90, 163, 52, 6, 12, 171, 222, 127>>
SampleI == [k \in 1..25 |-> k - 1]
Samples == {SampleA, SampleB, SampleI}

Const(n, v) == [k \in 1..n |-> v]

\* the (N, 25) uint8 array holding the states f[1], ..., f[N]
Batch(f, N) ==
    Array(<<N, 25>>, UINT8,
          [k \in 1..(N * 25) |-> f[((k - 1) \div 25) + 1][((k - 1) % 25) + 1]])

ValidBatches == UNION {{Batch(f, N) : f \in [1..N -> Samples]} : N \in 1..MaxN}

\* batches outside the input contract: 24 or 26 lanes per state, or uint16
\* lanes holding a value above 255
InvalidBatches ==
    {Array(<<N, L>>, UINT8, Const(N * L, 0)) : N \in 1..MaxN, L \in {24, 26}}
    \cup {Array(<<1, 25>>, UINT16, [k \in 1..25 |-> IF k = 1 THEN 300 ELSE 0]),
          Array(<<1, 25>>, UINT16, [k \in 1..25 |-> IF k = 25 THEN 256 ELSE SampleA[k]])}

\* the batches of one state, for the direct calls of keccak_round and iota
OneStateBatches == {Batch(<<s>>, 1) : s \in Samples}

IdxRange == (0 - (MAX_ROUNDS + IdxSlack))..(MAX_ROUNDS + IdxSlack)

Entries == {"permutation", "keccak_round", "iota", "ROL8"}

\* ------------------------------------------------------------------ Init
Init ==
    /\ entry \in Entries
    /\ x = 0
    /\ out = <<>>
    /\ states = NoRef
    /\ it = 0
    /\ pc = "idle"
    /\ err = "none"
    /\ \/ /\ entry = "permutation"
          /\ \E a \in ValidBatches \cup InvalidBatches : heap = (0 :> a)
          /\ round_index = 0
          /\ offset = <<>>
       \/ /\ entry \in {"keccak_round", "iota"}
          /\ \E a \in OneStateBatches : heap = (0 :> a)
          /\ round_index \in IdxRange
          /\ offset = <<>>
       \/ /\ entry = "ROL8"
          /\ round_index = 0
          /\ \E v \in 0..(Pow2(UINT8) - 1) :
                \/ /\ heap = (0 :> Array(<<1, 5, 5>>, UINT8, Const(25, v)))
                   /\ offset = RHO_OFFSETS
                \/ /\ heap = (0 :> Array(<<1, 5>>, UINT8, Const(5, v)))
                   /\ \E r \in 0..(UINT8 - 1) : offset = <<r>>

\* --------------------------------------------------------------- actions
\* the caller calls the entry function on its array x
Call ==
    /\ pc = "idle"
    /\ Len(out) < MaxCalls
    /\ states' = x
    /\ it' = 0
    /\ pc' = CASE entry = "permutation"  -> "for"
               [] entry = "keccak_round" -> "theta"
               [] entry = "iota"         -> "iota"
               [] OTHER                  -> "rol8"
    /\ UNCHANGED <<entry, heap, x, out, round_index, offset, err>>

\* permutation: for i in range(MAX_ROUNDS)
For ==
    /\ pc = "for"
    /\ IF it < MAX_ROUNDS
       THEN /\ round_index' = it
            /\ it' = it + 1
            /\ pc' = "theta"
       ELSE /\ pc' = "return"
            /\ UNCHANGED <<round_index, it>>
    /\ UNCHANGED <<entry, heap, x, out, states, offset, err>>

\* a step ended with result r: an exception unwinds the call, a value is
\* written in place or bound to `states` as a fresh array
Finish(step, r, next) ==
    IF IsError(r)
    THEN /\ err' = r.error
         /\ pc' = "raised"
         /\ states' = NoRef
         /\ heap' = Collect(heap, Roots(out, NoRef))
    ELSE /\ err' = err
         /\ pc' = next
         /\ IF InPlace(step)
            THEN /\ states' = states
                 /\ heap' = [heap EXCEPT ![states] = r]
            ELSE LET b == Alloc(heap)
                 IN  /\ states' = b
                     /\ heap' = Collect((b :> r) @@ heap, Roots(out, b))

Theta ==
    /\ pc = "theta"
    /\ Finish("theta", theta(heap[states]), NextStep("theta"))
    /\ UNCHANGED <<entry, x, out, round_index, it, offset>>

Rho ==
    /\ pc = "rho"
    /\ Finish("rho", rho(heap[states]), NextStep("rho"))
    /\ UNCHANGED <<entry, x, out, round_index, it, offset>>

Pi ==
    /\ pc = "pi"
    /\ Finish("pi", pi(heap[states]), NextStep("pi"))
    /\ UNCHANGED <<entry, x, out, round_index, it, offset>>

Chi ==
    /\ pc = "chi"
    /\ Finish("chi", chi(heap[states]), NextStep("chi"))
    /\ UNCHANGED <<entry, x, out, round_index, it, offset>>

\* iota, then keccak_round returns: to permutation's loop, or to the caller
Iota ==
    /\ pc = "iota"
    /\ Finish("iota", iota(heap[states], round_index),
              IF entry = "permutation" THEN "for" ELSE "return")
    /\ UNCHANGED <<entry, x, out, round_index, it, offset>>

\* a direct call of ROL8(states, offset)
Rol8 ==
    /\ pc = "rol8"
    /\ Finish("ROL8", ROL8(heap[states], offset), "return")
    /\ UNCHANGED <<entry, x, out, round_index, it, offset>>

\* return states: the caller keeps the returned array
Return ==
    /\ pc = "return"
    /\ out' = Append(out, states)
    /\ states' = NoRef
    /\ pc' = "idle"
    /\ heap' = Collect(heap, Roots(out', NoRef))
    /\ UNCHANGED <<entry, x, round_index, it, offset, err>>

Next == Call \/ For \/ Theta \/ Rho \/ Pi \/ Chi \/ Iota \/ Rol8 \/ Return

Spec == Init /\ [][Next]_vars

\* no step is left to take: the call raised, or the caller made its last call
Terminal == pc = "raised" \/ (pc = "idle" /\ Len(out) >= MaxCalls)

\* the code is sequential and nothing in it blocks or waits, so the step at the
\* control point is taken: weak fairness of Next.  ENABLED <<Next>>_vars is
\* ~Terminal (every other control point has its step, guarded by pc alone),
\* and WF_vars(Next) is written out with it
FairSpec == Spec /\ ([]<>Terminal \/ []<><<Next>>_vars)

\* ----------------------------------------------------- the call as a function
\* keccak_round(states, round_index) and permutation(states): each step runs on
\* the result of the step before, and an exception of a step ends the call
keccak_round(a, i) ==
    LET t == theta(a)
    IN  IF IsError(t) THEN t
        ELSE LET r == rho(t)
             IN  IF IsError(r) THEN r
                 ELSE LET p == pi(r)
                      IN  IF IsError(p) THEN p
                          ELSE LET c == chi(p)
                               IN  IF IsError(c) THEN c ELSE iota(c, i)

RECURSIVE rounds_from(_, _)
rounds_from(a, i) ==
    IF i >= MAX_ROUNDS THEN a
    ELSE LET b == keccak_round(a, i)
         IN  IF IsError(b) THEN b ELSE rounds_from(b, i + 1)

permutation(a) == rounds_from(a, 0)

\* ------------------------------------------------------------- vocabulary
\* the input contract: N >= 1 states of 25 lanes, each an 8-bit value
ValidBatch(a) ==
    /\ a.dtype = UINT8
    /\ Len(a.shape) = 2
    /\ a.shape[1] >= 1
    /\ a.shape[2] = 25
    /\ Len(a.data) = a.shape[1] * 25
    /\ \A k \in DOMAIN a.data : a.data[k] \in 0..255

\* state n (from 0) of the (N, 25) array a, as its 25 lanes
StateOf(a, n) == [k \in 1..25 |-> a.data[(n * 25) + k]]

PermCall == entry = "permutation" /\ ValidBatch(heap[x])

\* ----------------------------------------------------------------- claims
DocInput == <<244, 237, 146, 136, 194, 119, 230, 20, 38, 153, 174, 61, 167,
              242, 195, 179, 8, 8, 136, 17, 205, 246, 3, 170, 138>>
DocOutput == <<41, 65, 240, 43, 90, 191, 154, 77, 96, 226, 90, 29, 231,
               175, 191, 227, 209, 75, 126, 230, 237, 185, 198, 91, 166>>

\* C1: permutation of the one-state batch DocInput returns, after the 18
\* rounds, exactly DocOutput, lane for lane (one state of 25 uint8 lanes).
C1_DocExample ==
    (entry = "permutation" /\ heap[x] = Array(<<1, 25>>, UINT8, DocInput))
        => \A c \in DOMAIN out : heap[out[c]] = Array(<<1, 25>>, UINT8, DocOutput)

C1_Witness ==
    /\ entry = "permutation"
    /\ heap[x] = Array(<<1, 25>>, UINT8, DocInput)
    /\ Len(out) >= 1
    /\ heap[out[1]].data = DocOutput

\* C2: batch independence: for a valid batch of N >= 2 states, state k of the
\* returned batch is the single state of permutation([batch[k]]).
C2_BatchIndependence ==
    (PermCall /\ heap[x].shape[1] >= 2 /\ pc = "idle")
        => \A c \in DOMAIN out : \A n \in 0..(heap[x].shape[1] - 1) :
              StateOf(heap[out[c]], n)
                  = permutation(Array(<<1, 25>>, UINT8, StateOf(heap[x], n))).data

C2_Witness ==
    /\ PermCall
    /\ heap[x].shape[1] >= 2
    /\ StateOf(heap[x], 0) # StateOf(heap[x], 1)
    /\ pc = "idle"
    /\ Len(out) >= 1

\* C3 (as claimed): a batch with a state of other than 25 lanes, or with a lane
\* value outside 0..255, ends the call in an error and never returns a batch.
C3_RejectsInvalid ==
    (entry = "permutation" /\ ~ValidBatch(heap[x])) => (Len(out) = 0 /\ pc # "return")

\* C4: a call of permutation leaves the caller's batch unchanged, iota never
\* writes into the caller's array, and the calls on the same batch object
\* return identical outputs.
C4_RepeatableCalls ==
    [][entry = "permutation" =>
          /\ heap'[x] = heap[x]
          /\ (pc = "iota" => states # x)
          /\ \A c, d \in DOMAIN out' : heap'[out'[c]] = heap'[out'[d]]]_vars

C4_Witness ==
    /\ PermCall
    /\ Len(out) >= 2
    /\ out[1] # out[2]
    /\ heap[out[1]] # heap[x]

\* C5 (as claimed): keccak_round and iota called with a round index below 0 or
\* at least 18 fail: they never return a batch.
C5_RejectsBadIndex ==
    (entry \in {"keccak_round", "iota"} /\ (round_index < 0 \/ round_index >= 18))
        => (Len(out) = 0 /\ pc # "return")

\* C6: a call of permutation on a valid batch runs the steps theta, rho, pi,
\* chi, iota in that order, once per round, for the round indices 0, 1, ..., 17
\* in increasing order, each round on the output of the round before, and
\* returns after exactly 18 rounds; every such call terminates.
C6_RoundsInOrder ==
    /\ [][PermCall =>
            /\ (pc = "idle" /\ pc' # "idle") => (pc' = "for" /\ it' = 0)
            /\ (pc = "for" /\ it < 18) =>
                  /\ pc' = "theta"
                  /\ round_index' = it
                  /\ it' = it + 1
                  /\ (it > 0 => round_index' = round_index + 1)
                  /\ states' = states
            /\ (pc = "for" /\ pc' = "return") => (it = 18 /\ round_index = 17)
            /\ (pc = "theta") => pc' = "rho"
            /\ (pc = "rho") => pc' = "pi"
            /\ (pc = "pi") => pc' = "chi"
            /\ (pc = "chi") => pc' = "iota"
            /\ (pc = "iota") => (pc' = "for" /\ states' = states)
            /\ (pc \in {"theta", "rho", "pi", "chi", "iota"}) =>
                  (round_index' = round_index /\ it' = it)]_vars
    /\ \A c \in 0..(MaxCalls - 1) :
          (PermCall /\ pc = "for" /\ it = 0 /\ Len(out) = c)
              ~> (pc = "idle" /\ it = 18 /\ round_index = 17 /\ Len(out) = c + 1)

C6_Witness ==
    /\ PermCall
    /\ pc = "idle"
    /\ it = 18
    /\ round_index = 17
    /\ Len(out) = 2

\* C7: ROL8 is the 8-bit circular left rotation: for every lane value v in
\* 0..255 and every rotate amount r in 0..7, given as a scalar or per lane,
\* ROL8(v, r) = ((v * 2^r) mod 256) + (v div 2^(8-r)), the result is in 0..255,
\* and ROL8(v, 0) = v.
C7_ROL8Rotates ==
    (entry = "ROL8") =>
        \A c \in DOMAIN out : \A k \in DOMAIN heap[x].data :
            LET v == heap[x].data[k]
                r == offset[((k - 1) % Len(offset)) + 1]
                y == heap[out[c]].data[k]
            IN  /\ y = ((v * Pow2(r)) % 256) + (v \div Pow2(8 - r))
                /\ y \in 0..255
                /\ (r = 0 => y = v)

C7_Witness ==
    /\ entry = "ROL8"
    /\ Len(out) >= 1
    /\ offset = <<0>>
    /\ heap[x].data[1] = 255
    /\ heap[out[1]].data[1] = 255

\* the inverse of pi's table: the output index that reads source index j
InvP(j) == CHOOSE i \in 0..24 : p_mat[i + 1] = j

\* C8: pi's table holds every flat index 0..24 exactly once, output lane i of
\* pi is the input lane p_mat[i], and relocating the output by the inverse table
\* gives back the input state, for every state of the batch.
C8_PiIsPermutation ==
    [][(PermCall /\ pc = "pi") =>
          LET old == heap[states]
              new == heap'[states']
          IN  /\ Len(p_mat) = 25
              /\ \A j \in 0..24 : Cardinality({i \in 1..25 : p_mat[i] = j}) = 1
              /\ new.shape = old.shape
              /\ \A n \in 0..(old.shape[1] - 1) :
                    /\ \A i \in 0..24 :
                          new.data[(n * 25) + i + 1] = old.data[(n * 25) + p_mat[i + 1] + 1]
                    /\ [j \in 0..24 |-> new.data[(n * 25) + InvP(j) + 1]]
                          = [j \in 0..24 |-> old.data[(n * 25) + j + 1]]]_vars

C8_Witness ==
    /\ PermCall
    /\ pc = "chi"
    /\ round_index = 0
    /\ heap[states].data[2] # heap[states].data[11]

\* the column parity C[c] and the theta effect D[c] of state n of array a
ColumnParity(a, n, c) ==
    BitXor(a.data[(n * 25) + c + 1],
    BitXor(a.data[(n * 25) + c + 6],
    BitXor(a.data[(n * 25) + c + 11],
    BitXor(a.data[(n * 25) + c + 16], a.data[(n * 25) + c + 21]))))

ThetaEffect(a, n, c) ==
    LET l == ColumnParity(a, n, (c + 1) % 5)
    IN  BitXor(((l * 2) % 256) + (l \div 128), ColumnParity(a, n, (c + 4) % 5))

\* C9: for every batch size N >= 1, theta's output lane i of state n is the
\* input lane i XOR D[i mod 5], with D[c] = ROL8(C[(c+1) mod 5], 1) XOR
\* C[(c+4) mod 5] and C[c] the XOR of lanes c, c+5, c+10, c+15, c+20 of state n.
C9_ThetaReference ==
    [][(PermCall /\ pc = "theta") =>
          LET old == heap[states]
              new == heap'[states']
          IN  /\ new.shape = old.shape
              /\ Len(new.data) = Len(old.data)
              /\ \A n \in 0..(old.shape[1] - 1) : \A i \in 0..24 :
                    new.data[(n * 25) + i + 1]
                        = BitXor(old.data[(n * 25) + i + 1], ThetaEffect(old, n, i % 5))]_vars

C9_Witness ==
    /\ PermCall
    /\ heap[x].shape[1] = 2
    /\ StateOf(heap[x], 0) # StateOf(heap[x], 1)
    /\ pc = "rho"
    /\ round_index = 3

\* C10: for a valid batch of N >= 1 states, after every step of every round
\* every array of the call is N states of 25 lanes with every lane in 0..255,
\* and no step raises.
C10_ShapeAndWidth ==
    PermCall =>
        /\ err = "none"
        /\ \A b \in DOMAIN heap :
              /\ heap[b].shape = heap[x].shape
              /\ heap[b].dtype = UINT8
              /\ Len(heap[b].data) = heap[x].shape[1] * 25
              /\ \A k \in DOMAIN heap[b].data : heap[b].data[k] \in 0..255

C10_Witness ==
    /\ PermCall
    /\ heap[x].shape[1] = 2
    /\ pc = "return"
    /\ it = 18
    /\ states \in DOMAIN heap
    /\ states # x

====
